---- MODULE Spec2Model ----
(***************************************************************************)
(* A state-machine model of the glue code of the TensorFlow reference      *)
(* models kept in this repository:                                         *)
(*   official/bert/run_pretraining.py              (BERT pre-training)     *)
(*   official/bert/benchmark/bert_squad_benchmark.py (SQuAD benchmarks)    *)
(*   official/resnet/keras/keras_imagenet_test.py  (Keras ImageNet tests)  *)
(*   official/transformer/v2/transformer_layers_test.py (layer tests)      *)
(* The scripts are independent: one behaviour of the model is one run of   *)
(* one script (variable prog).  Calls into the deep-learning framework are *)
(* modelled by what the glue code observes of them: their arguments, their *)
(* order, their result or their failure.                                   *)
(***************************************************************************)
EXTENDS Integers, Sequences, FiniteSets, TLC

VARIABLES
  prog,         \* the script that runs in this behaviour
  pc,           \* control position inside the script
  raised,       \* the exception that ended the script, or NoError
  calls,        \* the calls made so far, in order (names)
  FLAGS,        \* absl flag values (flags.FLAGS) read by the script
  env,          \* the environment: framework version, command line
  entry,        \* run_pretraining: the function the run entered through
  strategy,     \* run_pretraining: the distribution strategy object
  cluster_resolver, \* run_pretraining: result of tpu_lib.tpu_initialize
  loop_args,    \* run_pretraining: arguments of run_customized_training_loop
  train_input,  \* run_pretraining: what get_pretrain_input_data returned
  glob_calls,   \* run_pretraining: patterns passed to tf.io.gfile.glob
  datasets,     \* run_pretraining: datasets made by create_pretrain_dataset
  at_return,    \* run_pretraining: globs and datasets counted when
                \* get_pretrain_input_data returned
  self,         \* the benchmark or test object: its class, method, attributes
  locals,       \* local variables of the benchmark or test method
  fs,           \* bert_squad_benchmark: the files, path |-> content
  reports,      \* bert_squad_benchmark: the calls of _report_benchmark
  ip,           \* bert_squad_benchmark: statement of _run_and_report_benchmark
  runs,         \* benchmark methods, tests or layer calls started so far
  dirs,         \* keras_imagenet_test: the temporary directories that exist
  made,         \* keras_imagenet_test: directories mkdtemp has made so far
  synthetic_runs \* keras_imagenet_test: the calls of integration.run_synthetic

preVars == <<entry, strategy, cluster_resolver, loop_args, train_input,
             glob_calls, datasets, at_return>>
objVars == <<self, locals>>
sqVars == <<fs, reports, ip>>
kiVars == <<dirs, made, synthetic_runs>>
notPre == <<objVars, sqVars, runs, kiVars>>
notSq == <<env, preVars, kiVars>>
notKi == <<preVars, sqVars>>
vars == <<prog, pc, raised, calls, FLAGS, env, preVars, objVars, sqVars, runs,
          kiVars>>

(***************************************************************************)
(* Bounds of the model.                                                    *)
(***************************************************************************)
MaxBatch    == 4   \* train_batch_size ranges over 0..MaxBatch
MaxReplicas == 3   \* num_replicas_in_sync ranges over 1..MaxReplicas
MaxPatLen   == 3   \* characters in the input_files flag
MaxWorkers  == 2   \* times the framework invokes a returned dataset function
MaxRuns     == 2   \* benchmark methods run one after the other in a process
MaxGpus     == 3   \* context.num_gpus() ranges over 0..MaxGpus
MaxTests    == 2   \* test methods run one after the other in a process
MaxBatchDim == 2   \* batch dimension of the attention input
MaxLength   == 2   \* length dimension of an attention input
MaxDecodeSteps == 3 \* calls of the attention layer on one cache

(***************************************************************************)
(* Python values.                                                          *)
(***************************************************************************)
None == "<None>"

\* Python truthiness of a flag value that is None or a string.
Truthy(v) == v # None /\ v # ""

NoError == [type |-> "None", msg |-> "", arg |-> ""]

NoSelf == [cls |-> "None", method |-> "None"]

NoLocals == [frame |-> "None"]

NoResolver == [kind |-> "None", tpu |-> ""]

NoStrategy == [type |-> "None", num_replicas_in_sync |-> 0,
               resolver |-> NoResolver]

\* A Python str is modelled as a sequence of one-character strings.
StartsWith(s, prefix) ==
  /\ Len(s) >= Len(prefix)
  /\ SubSeq(s, 1, Len(prefix)) = prefix

RECURSIVE SplitAcc(_, _, _, _)
SplitAcc(s, i, cur, acc) ==
  IF i > Len(s) THEN Append(acc, cur)
  ELSE IF s[i] = "," THEN SplitAcc(s, i + 1, <<>>, Append(acc, cur))
  ELSE SplitAcc(s, i + 1, Append(cur, s[i]), acc)

\* str.split(','): the pieces between the commas, empty pieces included.
Split(s) == SplitAcc(s, 1, <<>>, <<>>)

RECURSIVE StringsUpTo(_)
StringsUpTo(n) ==
  IF n = 0 THEN {<<>>}
  ELSE LET shorter == StringsUpTo(n - 1)
       IN shorter \cup {Append(s, c) : s \in shorter, c \in {"a", "b", ","}}

(***************************************************************************)
(* official/bert/run_pretraining.py                                        *)
(***************************************************************************)

\* tf.io.gfile.glob over a fixed file system: a pattern of k characters
\* matches k files, so the empty pattern matches none.
Glob(pattern) == [i \in 1..Len(pattern) |-> <<pattern, i>>]

RECURSIVE ExtendAll(_, _, _)
\* input_files after the for loop of _dataset_fn over patterns[i..].
ExtendAll(patterns, i, input_files) ==
  IF i > Len(patterns) THEN input_files
  ELSE ExtendAll(patterns, i + 1, input_files \o Glob(patterns[i]))

\* input_pipeline.create_pretrain_dataset: the dataset is known by the
\* arguments it was created with.
create_pretrain_dataset(input_files, seq_length, max_predictions_per_seq, batch_size) ==
  [input_files |-> input_files, seq_length |-> seq_length,
   max_predictions_per_seq |-> max_predictions_per_seq,
   batch_size |-> batch_size]

\* _dataset_fn, closed over the locals of get_pretrain_input_data: the
\* patterns it globs, in order, and the dataset it returns.
dataset_fn(closure) ==
  LET patterns == Split(closure.input_file_pattern)
  IN [globbed |-> patterns,
      dataset |-> create_pretrain_dataset(
                    ExtendAll(patterns, 1, <<>>), closure.seq_length,
                    closure.max_predictions_per_seq, closure.batch_size)]

\* Mutant of use_dataset_fn: the isinstance test never succeeds.
use_dataset_fn_never(strat) == strat.type = "NoSuchStrategy"

\* use_dataset_fn = isinstance(strategy, TPUStrategy)
use_dataset_fn(strat) == strat.type = "TPUStrategy"

\* Mutant of NotDivisible: the divisibility check is dropped.
NotDivisible_unchecked(batch_size, num_replicas) == FALSE

\* batch_size % strategy.num_replicas_in_sync != 0
NotDivisible(batch_size, num_replicas) == batch_size % num_replicas # 0

\* Mutant of PerReplicaBatchSize: the global batch size is kept.
PerReplicaBatchSize_global(batch_size, num_replicas) == batch_size

\* int(batch_size / strategy.num_replicas_in_sync); true division, exact
\* here because it is reached only when the remainder is zero.
PerReplicaBatchSize(batch_size, num_replicas) == batch_size \div num_replicas

NoReturn == [kind |-> "None"]

\* get_pretrain_input_data: the exception raised or the value returned,
\* the patterns globbed and the datasets created during the call.
get_pretrain_input_data(input_file_pattern, seq_length, max_predictions_per_seq, batch_size, strat) ==
  IF use_dataset_fn(strat)
       /\ NotDivisible(batch_size, strat.num_replicas_in_sync)
  THEN [raised |-> [type |-> "ValueError",
                    msg |-> "Batch size must be divisible by number of replicas : ",
                    arg |-> ToString(strat.num_replicas_in_sync)],
        ret |-> NoReturn, globbed |-> <<>>, created |-> <<>>]
  ELSE
    LET closure ==
          [input_file_pattern |-> input_file_pattern,
           seq_length |-> seq_length,
           max_predictions_per_seq |-> max_predictions_per_seq,
           batch_size |->
             IF use_dataset_fn(strat)
             THEN PerReplicaBatchSize(batch_size, strat.num_replicas_in_sync)
             ELSE batch_size]
        r == dataset_fn(closure)
    IN IF use_dataset_fn(strat)
       THEN [raised |-> NoError,
             ret |-> [kind |-> "function", value |-> closure],
             globbed |-> <<>>, created |-> <<>>]
       ELSE [raised |-> NoError,
             ret |-> [kind |-> "dataset", value |-> r.dataset],
             globbed |-> r.globbed, created |-> <<r.dataset>>]

\* Mutant of DefaultModelDir: `if FLAGS.model_dir is None`.
DefaultModelDir_is_none(model_dir) ==
  IF model_dir = None THEN "/tmp/bert20/" ELSE model_dir

\* main: `if not FLAGS.model_dir: FLAGS.model_dir = '/tmp/bert20/'`
DefaultModelDir(model_dir) ==
  IF ~Truthy(model_dir)
  THEN "/tmp/bert20/"
  ELSE model_dir

\* Mutant of StrategyBranch: no else branch, the mirrored strategy is the
\* fallback.
StrategyBranch_fallback(strategy_type) ==
  IF strategy_type = "tpu" THEN "tpu" ELSE "mirror"

\* main: the branch of the if / elif / else over FLAGS.strategy_type.
StrategyBranch(strategy_type) ==
  IF strategy_type = "mirror" THEN "mirror"
  ELSE IF strategy_type = "tpu" THEN "tpu"
  ELSE "unsupported"

\* tpu_lib.tpu_initialize(tpu_address): the cluster resolver of that TPU.
tpu_initialize(tpu_address) == [kind |-> "TPUClusterResolver", tpu |-> tpu_address]

\* run_bert_pretrain: use_remote_tpu = (strategy_type == 'tpu' and FLAGS.tpu)
UseRemoteTpu(flags) ==
  IF flags.strategy_type = "tpu" THEN flags.tpu ELSE "False"

\* run_customized_training: the keyword arguments it hands to
\* model_training_utils.run_customized_training_loop; train_input_fn is the
\* functools.partial over get_pretrain_input_data.
run_customized_training(strat, max_seq_length, max_predictions_per_seq, model_dir, steps_per_epoch, epochs, input_files, train_batch_size, use_remote_tpu) ==
  [strategy |-> strat,
   model_dir |-> model_dir,
   train_input_fn |-> [input_file_pattern |-> input_files,
                       seq_length |-> max_seq_length,
                       max_predictions_per_seq |-> max_predictions_per_seq,
                       batch_size |-> train_batch_size,
                       strategy |-> strat],
   steps_per_epoch |-> steps_per_epoch,
   epochs |-> epochs,
   use_remote_tpu |-> use_remote_tpu]

NoLoopArgs == [strategy |-> NoStrategy]

\* The values the flags of run_pretraining.py take in the model.  The
\* strategy_type flag is declared an enum of 'tpu' and 'mirror'; main also
\* handles every other value, which a caller can assign to FLAGS directly.
ModelDirs == {None, "", "/data/bert"}
StrategyTypes == {"mirror", "tpu", "one_device", ""}
TpuAddresses == {"", "grpc://tpu"}
TfVersions == {<<"1", ".", "1", "4">>, <<"2", ".", "0">>}

PretrainFlags ==
  [model_dir : ModelDirs, strategy_type : StrategyTypes, tpu : TpuAddresses,
   max_seq_length : {128}, max_predictions_per_seq : {20},
   train_batch_size : 0..MaxBatch, num_train_epochs : {3},
   num_steps_per_epoch : {1000}, input_files : StringsUpTo(MaxPatLen)]

Strategies ==
  {NoStrategy}
  \cup [type : {"MirroredStrategy"}, num_replicas_in_sync : 1..MaxReplicas,
        resolver : {NoResolver}]
  \cup [type : {"TPUStrategy"}, num_replicas_in_sync : 1..MaxReplicas,
        resolver : {tpu_initialize(a) : a \in TpuAddresses}]

\* run_pretraining starts in main (app.run), or a caller enters
\* run_bert_pretrain with a strategy of its own (then under TF 2.x, with a
\* short input_files flag).  env.argv_model_dir is the model_dir flag as
\* given on the command line.
InitPretrain ==
  /\ prog = "run_pretraining"
  /\ raised = NoError
  /\ FLAGS \in PretrainFlags
  /\ env \in [tf_version : TfVersions, argv_model_dir : ModelDirs]
  /\ FLAGS.model_dir = env.argv_model_dir
  /\ cluster_resolver = NoResolver
  /\ loop_args = NoLoopArgs
  /\ train_input = NoReturn
  /\ glob_calls = <<>>
  /\ datasets = <<>>
  /\ at_return = [globs |-> 0, datasets |-> 0]
  /\ self = NoSelf /\ locals = NoLocals
  /\ fs = <<>> /\ reports = <<>> /\ ip = 0 /\ runs = 0
  /\ dirs = {} /\ made = 0 /\ synthetic_runs = <<>>
  /\ \/ /\ entry = "main"
        /\ pc = "main"
        /\ calls = <<"main">>
        /\ strategy = NoStrategy
     \/ /\ entry = "run_bert_pretrain"
        /\ pc = "run_bert_pretrain"
        /\ calls = <<"run_bert_pretrain">>
        /\ strategy \in Strategies
        /\ FLAGS.input_files \in StringsUpTo(1)
        /\ env.tf_version = <<"2", ".", "0">>

\* main, lines 177-180: the version assertion and the model_dir default.
MainStart ==
  /\ prog = "run_pretraining" /\ pc = "main"
  /\ IF StartsWith(env.tf_version, <<"2", ".">>)
     THEN /\ FLAGS' = [FLAGS EXCEPT !.model_dir = DefaultModelDir(@)]
          /\ pc' = "main_strategy"
          /\ raised' = raised
     ELSE /\ raised' = [type |-> "AssertionError", msg |-> "", arg |-> ""]
          /\ pc' = "raised"
          /\ FLAGS' = FLAGS
  /\ UNCHANGED <<prog, notPre, calls, env, preVars>>

\* main, lines 182-183: strategy = tf.distribute.MirroredStrategy(); the
\* replica count is the number of devices the framework finds.
MainMirror ==
  /\ prog = "run_pretraining" /\ pc = "main_strategy"
  /\ StrategyBranch(FLAGS.strategy_type) = "mirror"
  /\ \E n \in 1..MaxReplicas :
       strategy' = [type |-> "MirroredStrategy", num_replicas_in_sync |-> n,
                    resolver |-> NoResolver]
  /\ calls' = Append(calls, "tf.distribute.MirroredStrategy")
  /\ pc' = "main_call"
  /\ UNCHANGED <<prog, notPre, raised, FLAGS, env, entry, cluster_resolver,
                 loop_args, train_input, glob_calls, datasets, at_return>>

\* main, lines 184-186: cluster_resolver = tpu_lib.tpu_initialize(FLAGS.tpu)
MainTpuInitialize ==
  /\ prog = "run_pretraining" /\ pc = "main_strategy"
  /\ StrategyBranch(FLAGS.strategy_type) = "tpu"
  /\ cluster_resolver' = tpu_initialize(FLAGS.tpu)
  /\ calls' = Append(calls, "tpu_lib.tpu_initialize")
  /\ pc' = "main_tpu_strategy"
  /\ UNCHANGED <<prog, notPre, raised, FLAGS, env, entry, strategy, loop_args,
                 train_input, glob_calls, datasets, at_return>>

\* main, line 187: strategy = TPUStrategy(cluster_resolver)
MainTpuStrategy ==
  /\ prog = "run_pretraining" /\ pc = "main_tpu_strategy"
  /\ \E n \in 1..MaxReplicas :
       strategy' = [type |-> "TPUStrategy", num_replicas_in_sync |-> n,
                    resolver |-> cluster_resolver]
  /\ calls' = Append(calls, "tf.distribute.experimental.TPUStrategy")
  /\ pc' = "main_call"
  /\ UNCHANGED <<prog, notPre, raised, FLAGS, env, entry, cluster_resolver,
                 loop_args, train_input, glob_calls, datasets, at_return>>

\* main, lines 188-190: raise ValueError for any other strategy type.
MainUnsupported ==
  /\ prog = "run_pretraining" /\ pc = "main_strategy"
  /\ StrategyBranch(FLAGS.strategy_type) = "unsupported"
  /\ raised' = [type |-> "ValueError",
                msg |-> "The distribution strategy type is not supported: ",
                arg |-> FLAGS.strategy_type]
  /\ pc' = "raised"
  /\ UNCHANGED <<prog, notPre, calls, FLAGS, env, preVars>>

\* main, lines 191-194: print the number of cores, call run_bert_pretrain.
MainCallRunBertPretrain ==
  /\ prog = "run_pretraining" /\ pc = "main_call"
  /\ calls' = (IF strategy.type # "None" THEN Append(calls, "print")
                ELSE calls) \o <<"run_bert_pretrain">>
  /\ pc' = "run_bert_pretrain"
  /\ UNCHANGED <<prog, notPre, raised, FLAGS, env, preVars>>

\* Mutant of NotStrategy: run_bert_pretrain accepts a missing strategy.
NotStrategy_accepted(strat) == FALSE

\* run_bert_pretrain, line 152: `not strategy`.  A strategy object is
\* truthy, so only None is refused.
NotStrategy(strat) == strat = NoStrategy

\* run_bert_pretrain and the run_customized_training it calls, up to the
\* call of model_training_utils.run_customized_training_loop.
RunBertPretrain ==
  /\ prog = "run_pretraining" /\ pc = "run_bert_pretrain"
  /\ IF NotStrategy(strategy)
     THEN /\ raised' = [type |-> "ValueError",
                        msg |-> "Distribution strategy is not specified.",
                        arg |-> ""]
          /\ pc' = "raised"
          /\ calls' = Append(calls, "BertConfig.from_json_file")
          /\ loop_args' = loop_args
     ELSE /\ loop_args' = run_customized_training(
                             strategy, FLAGS.max_seq_length,
                             FLAGS.max_predictions_per_seq, FLAGS.model_dir,
                             FLAGS.num_steps_per_epoch, FLAGS.num_train_epochs,
                             FLAGS.input_files, FLAGS.train_batch_size,
                             UseRemoteTpu(FLAGS))
          /\ calls' = calls \o <<"BertConfig.from_json_file",
                                  "run_customized_training",
                                  "run_customized_training_loop">>
          /\ pc' = "training_loop"
          /\ raised' = raised
  /\ UNCHANGED <<prog, notPre, FLAGS, env, entry, strategy, cluster_resolver,
                 train_input, glob_calls, datasets, at_return>>

\* The training loop calls train_input_fn(), the partial application of
\* get_pretrain_input_data built by run_customized_training.
TrainInputFn ==
  /\ prog = "run_pretraining" /\ pc = "training_loop"
  /\ LET a == loop_args.train_input_fn
         r == get_pretrain_input_data(a.input_file_pattern, a.seq_length,
                                      a.max_predictions_per_seq, a.batch_size,
                                      a.strategy)
     IN /\ raised' = r.raised
        /\ train_input' = r.ret
        /\ glob_calls' = glob_calls \o r.globbed
        /\ datasets' = datasets \o r.created
        /\ at_return' = [globs |-> Len(glob_calls \o r.globbed),
                         datasets |-> Len(datasets \o r.created)]
        /\ pc' = IF r.raised = NoError THEN "input_ready" ELSE "raised"
  /\ calls' = Append(calls, "get_pretrain_input_data")
  /\ UNCHANGED <<prog, notPre, FLAGS, env, entry, strategy, cluster_resolver,
                 loop_args>>

\* The framework invokes the dataset function it was handed (once per
\* input worker) to clone the dataset.
InvokeDatasetFn ==
  /\ prog = "run_pretraining" /\ pc = "input_ready"
  /\ train_input.kind = "function"
  /\ Len(datasets) < MaxWorkers
  /\ LET r == dataset_fn(train_input.value)
     IN /\ glob_calls' = glob_calls \o r.globbed
        /\ datasets' = Append(datasets, r.dataset)
  /\ calls' = Append(calls, "_dataset_fn")
  /\ UNCHANGED <<prog, notPre, pc, raised, FLAGS, env, entry, strategy,
                 cluster_resolver, loop_args, train_input, at_return>>

\* run_customized_training_loop returns, and with it run_bert_pretrain.
TrainingLoopReturn ==
  /\ prog = "run_pretraining" /\ pc = "input_ready"
  /\ pc' = "done"
  /\ UNCHANGED <<prog, notPre, raised, calls, FLAGS, env, preVars>>

NextPretrain ==
  \/ MainStart \/ MainMirror \/ MainTpuInitialize \/ MainTpuStrategy
  \/ MainUnsupported \/ MainCallRunBertPretrain \/ RunBertPretrain
  \/ TrainInputFn \/ InvokeDatasetFn \/ TrainingLoopReturn

(***************************************************************************)
(* official/bert/benchmark/bert_squad_benchmark.py                         *)
(* A path is the sequence of its components; accuracies and F1 scores are *)
(* counted in thousandths (0.900 is 900, 1 is 1000).                       *)
(***************************************************************************)
PRETRAINED_CHECKPOINT_PATH == <<"gs://cloud-tpu-checkpoints/bert/tf_20/uncased_L-24_H-1024_A-16/bert_model.ckpt">>
SQUAD_TRAIN_DATA_PATH == <<"gs://tf-perfzero-data/bert/squad/squad_train.tf_record">>
SQUAD_PREDICT_FILE == <<"gs://tf-perfzero-data/bert/squad/dev-v1.1.json">>
SQUAD_VOCAB_FILE == <<"gs://tf-perfzero-data/bert/squad/vocab.txt">>
SQUAD_SMALL_INPUT_META_DATA_PATH == <<"gs://tf-perfzero-data/bert/squad/squad_small_meta_data">>
SQUAD_FULL_INPUT_META_DATA_PATH == <<"gs://tf-perfzero-data/bert/squad/squad_full_meta_data">>
MODEL_CONFIG_FILE_PATH == <<"gs://cloud-tpu-checkpoints/bert/tf_20/uncased_L-24_H-1024_A-16/bert_config">>

\* os.path.join(directory, name)
PathJoin(directory, name) == Append(directory, name)

\* A dict with d[key] = value assigned.
DictSet(d, key, value) ==
  [k \in DOMAIN d \cup {key} |-> IF k = key THEN value ELSE d[k]]

\* The benchmark methods, as <<class, method>>.
BenchmarkMethods ==
  {<<"BertSquadBenchmarkReal", "benchmark_1_gpu">>,
   <<"BertSquadBenchmarkReal", "benchmark_2_gpu">>,
   <<"BertSquadBenchmarkReal", "benchmark_4_gpu">>,
   <<"BertSquadBenchmarkReal", "benchmark_8_gpu">>,
   <<"BertSquadAccuracy", "benchmark_8_gpu">>}

\* The flags before any benchmark has set them.
SquadFlags0 ==
  [train_data_path |-> <<>>, predict_file |-> <<>>, vocab_file |-> <<>>,
   input_meta_data_path |-> <<>>, bert_config_file |-> <<>>,
   init_checkpoint |-> <<>>, num_train_epochs |-> 3, model_dir |-> <<>>,
   train_batch_size |-> 32]

\* BertSquadBenchmarkReal._setup and BertSquadAccuracy._setup
Setup(cls, flags) ==
  IF cls = "BertSquadBenchmarkReal"
  THEN [flags EXCEPT !.train_data_path = SQUAD_TRAIN_DATA_PATH,
                     !.predict_file = SQUAD_PREDICT_FILE,
                     !.vocab_file = SQUAD_VOCAB_FILE,
                     !.input_meta_data_path = SQUAD_SMALL_INPUT_META_DATA_PATH,
                     !.bert_config_file = MODEL_CONFIG_FILE_PATH,
                     !.num_train_epochs = 1]
  ELSE [flags EXCEPT !.train_data_path = SQUAD_TRAIN_DATA_PATH,
                     !.predict_file = SQUAD_PREDICT_FILE,
                     !.vocab_file = SQUAD_VOCAB_FILE,
                     !.input_meta_data_path = SQUAD_FULL_INPUT_META_DATA_PATH,
                     !.bert_config_file = MODEL_CONFIG_FILE_PATH,
                     !.init_checkpoint = PRETRAINED_CHECKPOINT_PATH,
                     !.num_train_epochs = 2]

\* Mutant of BenchmarkBody: benchmark_4_gpu copied from benchmark_2_gpu
\* with num_gpus left at 2.
BenchmarkBody_copied(cls, method) ==
  IF method = "benchmark_1_gpu"
  THEN [num_gpus |-> 1, folder |-> "benchmark_1_gpu_squad", train_batch_size |-> 4]
  ELSE IF method = "benchmark_2_gpu"
  THEN [num_gpus |-> 2, folder |-> "benchmark_2_gpu_squad", train_batch_size |-> 8]
  ELSE IF method = "benchmark_4_gpu"
  THEN [num_gpus |-> 2, folder |-> "benchmark_4_gpu_squad", train_batch_size |-> 16]
  ELSE [num_gpus |-> 8, folder |-> "benchmark_8_gpu_squad", train_batch_size |-> 32]

\* The assignments of a benchmark_N_gpu method between _setup() and
\* _run_and_report_benchmark(); benchmark_8_gpu reads the same in both
\* classes.
BenchmarkBody(cls, method) ==
  IF method = "benchmark_1_gpu"
  THEN [num_gpus |-> 1, folder |-> "benchmark_1_gpu_squad", train_batch_size |-> 4]
  ELSE IF method = "benchmark_2_gpu"
  THEN [num_gpus |-> 2, folder |-> "benchmark_2_gpu_squad", train_batch_size |-> 8]
  ELSE IF method = "benchmark_4_gpu"
  THEN [num_gpus |-> 4, folder |-> "benchmark_4_gpu_squad", train_batch_size |-> 16]
  ELSE [num_gpus |-> 8, folder |-> "benchmark_8_gpu_squad", train_batch_size |-> 32]

\* benchmark_utils.BertBenchmarkBase._get_model_dir(folder_name)
get_model_dir(output_dir, folder_name) == PathJoin(output_dir, folder_name)

\* distribution_utils.get_distribution_strategy(
\*     distribution_strategy='mirrored', num_gpus=self.num_gpus)
get_distribution_strategy(obj) ==
  [distribution_strategy |-> "mirrored", num_gpus |-> obj.num_gpus]

\* Mutant of RunAndReportSteps: BertSquadAccuracy reads the training summary
\* and copies eval_metrics before it evaluates.
RunAndReportSteps_early(cls) ==
  IF cls = "BertSquadBenchmarkReal"
  THEN <<"start_time_sec", "_train_squad", "wall_time_sec",
         "_read_training_summary_from_file", "_report_benchmark">>
  ELSE <<"start_time_sec", "_train_squad",
         "_read_training_summary_from_file", "summary['eval_metrics']",
         "_evaluate_squad", "wall_time_sec", "_report_benchmark">>

\* The statements of _run_and_report_benchmark, in order.
RunAndReportSteps(cls) ==
  IF cls = "BertSquadBenchmarkReal"
  THEN <<"start_time_sec", "_train_squad", "wall_time_sec",
         "_read_training_summary_from_file", "_report_benchmark">>
  ELSE <<"start_time_sec", "_train_squad", "_evaluate_squad", "wall_time_sec",
         "_read_training_summary_from_file", "summary['eval_metrics']",
         "_report_benchmark">>

\* Mutant of AccuracyBounds: BertSquadAccuracy keeps the bounds of the
\* performance benchmark.
AccuracyBounds_copied(cls) == [min_accuracy |-> 0, max_accuracy |-> 1000]

\* min_accuracy and max_accuracy of the _report_benchmark call.
AccuracyBounds(cls) ==
  IF cls = "BertSquadBenchmarkReal"
  THEN [min_accuracy |-> 0, max_accuracy |-> 1000]
  ELSE [min_accuracy |-> 900, max_accuracy |-> 908]

\* _evaluate_squad: `self.eval_metrics = eval_metrics['f1']`
ReportedMetric(eval_metrics) == eval_metrics.f1

\* The scores squad_evaluate_v1_1.evaluate may return, exact match never
\* above F1.
Scores == {0, 899, 900, 908, 909, 1000}
EvalMetrics == {m \in [exact_match : Scores, f1 : Scores] : m.exact_match <= m.f1}

\* The attribute self.eval_metrics before _evaluate_squad has set it.
Unset == -1

\* The files the benchmarks read that exist before any benchmark runs.
SquadFiles0 ==
  (SQUAD_SMALL_INPUT_META_DATA_PATH :> [kind |-> "input_meta_data", size |-> "small"])
  @@ (SQUAD_FULL_INPUT_META_DATA_PATH :> [kind |-> "input_meta_data", size |-> "full"])
  @@ (SQUAD_PREDICT_FILE :> [kind |-> "squad_dev", data |-> "dev-v1.1"])

InitSquad ==
  /\ prog = "bert_squad_benchmark"
  /\ pc = "idle"
  /\ raised = NoError
  /\ calls = <<>>
  /\ FLAGS = SquadFlags0
  /\ env = [output_dir |-> <<"benchmark_output">>]
  /\ self = NoSelf
  /\ locals = NoLocals
  /\ fs = SquadFiles0
  /\ reports = <<>>
  /\ ip = 0
  /\ runs = 0
  /\ dirs = {} /\ made = 0 /\ synthetic_runs = <<>>
  /\ entry = "None" /\ strategy = NoStrategy /\ cluster_resolver = NoResolver
  /\ loop_args = NoLoopArgs /\ train_input = NoReturn /\ glob_calls = <<>>
  /\ datasets = <<>> /\ at_return = [globs |-> 0, datasets |-> 0]

\* The statement _run_and_report_benchmark is at.
Statement == RunAndReportSteps(self.cls)[ip]

AtStatement(name) ==
  /\ prog = "bert_squad_benchmark" /\ pc = "run_and_report"
  /\ Statement = name

\* Control after the statement at ip: the next one, or the method returns.
AfterStatement == IF ip = Len(RunAndReportSteps(self.cls)) THEN "idle" ELSE "run_and_report"

\* A benchmark_N_gpu method of a fresh benchmark object, up to its call of
\* _run_and_report_benchmark: _setup(), num_gpus, model_dir, batch size.
BenchmarkMethod ==
  /\ prog = "bert_squad_benchmark" /\ pc = "idle"
  /\ runs < MaxRuns
  /\ \E b \in BenchmarkMethods :
       LET body == BenchmarkBody(b[1], b[2])
       IN /\ self' = [cls |-> b[1], method |-> b[2], run |-> runs + 1,
                      output_dir |-> env.output_dir,
                      num_gpus |-> body.num_gpus, eval_metrics |-> Unset]
          /\ FLAGS' = [Setup(b[1], FLAGS) EXCEPT
                         !.model_dir = get_model_dir(env.output_dir, body.folder),
                         !.train_batch_size = body.train_batch_size]
          /\ calls' = <<"_setup">>
  /\ locals' = [frame |-> "_run_and_report_benchmark", clock |-> 0,
                start_time_sec |-> 0, wall_time_sec |-> 0,
                input_meta_data |-> [kind |-> "None"],
                strategy |-> [distribution_strategy |-> "None", num_gpus |-> 0],
                eval_metrics |-> [exact_match |-> Unset, f1 |-> Unset],
                summary |-> <<>>]
  /\ runs' = runs + 1
  /\ ip' = 1
  /\ pc' = "run_and_report"
  /\ UNCHANGED <<prog, raised, fs, reports, notSq>>

\* start_time_sec = time.time()
StartTime ==
  /\ AtStatement("start_time_sec")
  /\ locals' = [locals EXCEPT !.start_time_sec = locals.clock]
  /\ ip' = ip + 1
  /\ pc' = AfterStatement
  /\ UNCHANGED <<prog, raised, calls, FLAGS, self, fs, reports, runs, notSq>>

\* wall_time_sec = time.time() - start_time_sec
WallTime ==
  /\ AtStatement("wall_time_sec")
  /\ locals' = [locals EXCEPT !.wall_time_sec = locals.clock - locals.start_time_sec]
  /\ ip' = ip + 1
  /\ pc' = AfterStatement
  /\ UNCHANGED <<prog, raised, calls, FLAGS, self, fs, reports, runs, notSq>>

\* _train_squad: reads the input metadata, builds the strategy and calls
\* run_squad.train_squad, which writes training_summary.txt into
\* FLAGS.model_dir or fails.  @flagsaver.flagsaver leaves FLAGS as they
\* were at entry.
TrainSquad ==
  /\ AtStatement("_train_squad")
  /\ LET input_meta_data == fs[FLAGS.input_meta_data_path]
         strat == get_distribution_strategy(self)
         summary_path == PathJoin(FLAGS.model_dir, "training_summary.txt")
     IN /\ locals' = [locals EXCEPT !.input_meta_data = input_meta_data,
                                    !.strategy = strat,
                                    !.clock = @ + 1]
        /\ calls' = calls \o <<"_read_input_meta_data_from_file",
                               "_get_distribution_strategy",
                               "run_squad.train_squad">>
        /\ \/ /\ fs' = DictSet(fs, summary_path,
                               [kind |-> "training_summary",
                                written_by |-> <<self.cls, self.method, self.run>>,
                                input_meta_data |-> input_meta_data,
                                num_gpus |-> strat.num_gpus])
              /\ ip' = ip + 1
              /\ pc' = AfterStatement
              /\ raised' = raised
           \/ /\ raised' = [type |-> "Error", msg |-> "run_squad.train_squad", arg |-> ""]
              /\ pc' = "raised"
              /\ UNCHANGED <<fs, ip>>
  /\ UNCHANGED <<prog, FLAGS, self, reports, runs, notSq>>

\* _evaluate_squad: reads the input metadata, builds the strategy, calls
\* run_squad.predict_squad, which writes predictions.json into
\* FLAGS.model_dir or fails, reads the dev set and the predictions, and keeps
\* the F1 score squad_evaluate_v1_1.evaluate returns as self.eval_metrics.
EvaluateSquad ==
  /\ AtStatement("_evaluate_squad")
  /\ LET input_meta_data == fs[FLAGS.input_meta_data_path]
         strat == get_distribution_strategy(self)
         predictions_file == PathJoin(FLAGS.model_dir, "predictions.json")
     IN /\ \/ \E m \in EvalMetrics :
                /\ fs' = DictSet(fs, predictions_file,
                                 [kind |-> "predictions",
                                  written_by |-> <<self.cls, self.method, self.run>>])
                /\ locals' = [locals EXCEPT !.input_meta_data = input_meta_data,
                                            !.strategy = strat,
                                            !.clock = @ + 1,
                                            !.eval_metrics = m]
                /\ self' = [self EXCEPT !.eval_metrics = ReportedMetric(m)]
                /\ calls' = calls \o <<"_read_input_meta_data_from_file",
                                       "_get_distribution_strategy",
                                       "run_squad.predict_squad",
                                       "_read_predictions_dataset_from_file",
                                       "_read_predictions_from_file",
                                       "squad_evaluate_v1_1.evaluate",
                                       "self.eval_metrics">>
                /\ ip' = ip + 1
                /\ pc' = AfterStatement
                /\ raised' = raised
           \/ /\ locals' = [locals EXCEPT !.input_meta_data = input_meta_data,
                                          !.strategy = strat,
                                          !.clock = @ + 1]
              /\ calls' = calls \o <<"_read_input_meta_data_from_file",
                                     "_get_distribution_strategy",
                                     "run_squad.predict_squad">>
              /\ raised' = [type |-> "Error", msg |-> "run_squad.predict_squad", arg |-> ""]
              /\ pc' = "raised"
              /\ UNCHANGED <<fs, ip, self>>
  /\ UNCHANGED <<prog, FLAGS, reports, runs, notSq>>

\* summary = self._read_training_summary_from_file()
ReadTrainingSummary ==
  /\ AtStatement("_read_training_summary_from_file")
  /\ LET summary_path == PathJoin(FLAGS.model_dir, "training_summary.txt")
     IN IF summary_path \in DOMAIN fs
        THEN /\ locals' = [locals EXCEPT !.summary = fs[summary_path]]
             /\ ip' = ip + 1
             /\ pc' = AfterStatement
             /\ raised' = raised
        ELSE /\ raised' = [type |-> "NotFoundError", msg |-> "training_summary.txt", arg |-> ""]
             /\ pc' = "raised"
             /\ UNCHANGED <<locals, ip>>
  /\ calls' = Append(calls, "_read_training_summary_from_file")
  /\ UNCHANGED <<prog, FLAGS, self, fs, reports, runs, notSq>>

\* summary['eval_metrics'] = self.eval_metrics
CopyEvalMetrics ==
  /\ AtStatement("summary['eval_metrics']")
  /\ IF self.eval_metrics # Unset
     THEN /\ locals' = [locals EXCEPT
                          !.summary = DictSet(@, "eval_metrics", self.eval_metrics)]
          /\ ip' = ip + 1
          /\ pc' = AfterStatement
          /\ raised' = raised
     ELSE /\ raised' = [type |-> "AttributeError", msg |-> "eval_metrics", arg |-> ""]
          /\ pc' = "raised"
          /\ UNCHANGED <<locals, ip>>
  /\ calls' = Append(calls, "summary['eval_metrics']")
  /\ UNCHANGED <<prog, FLAGS, self, fs, reports, runs, notSq>>

\* super()._report_benchmark(stats=summary, wall_time_sec=wall_time_sec,
\*                           min_accuracy=..., max_accuracy=...)
ReportBenchmark ==
  /\ AtStatement("_report_benchmark")
  /\ reports' = Append(reports,
                       [cls |-> self.cls, method |-> self.method, run |-> self.run,
                        stats |-> locals.summary,
                        wall_time_sec |-> locals.wall_time_sec,
                        min_accuracy |-> AccuracyBounds(self.cls).min_accuracy,
                        max_accuracy |-> AccuracyBounds(self.cls).max_accuracy])
  /\ calls' = Append(calls, "_report_benchmark")
  /\ ip' = ip + 1
  /\ pc' = AfterStatement
  /\ UNCHANGED <<prog, raised, FLAGS, self, locals, fs, runs, notSq>>

NextSquad ==
  \/ BenchmarkMethod \/ StartTime \/ WallTime \/ TrainSquad \/ EvaluateSquad
  \/ ReadTrainingSummary \/ CopyEvalMetrics \/ ReportBenchmark

(***************************************************************************)
(* official/resnet/keras/keras_imagenet_test.py                            *)
(***************************************************************************)

\* KerasImagenetTest._extra_flags
extra_flags_common == <<"-batch_size", "4", "-train_steps", "1", "-use_synthetic_data", "true">>

KerasTests ==
  {"test_end_to_end_no_dist_strat", "test_end_to_end_graph_no_dist_strat",
   "test_end_to_end_1_gpu", "test_end_to_end_graph_1_gpu",
   "test_end_to_end_2_gpu", "test_end_to_end_xla_2_gpu",
   "test_end_to_end_2_gpu_fp16", "test_end_to_end_xla_2_gpu_fp16",
   "test_end_to_end_graph_2_gpu", "test_end_to_end_graph_xla_2_gpu"}

\* Mutant of SkipGuard: test_end_to_end_2_gpu_fp16 keeps the guard of the
\* 1-GPU test it was copied from.
SkipGuard_copied(test) ==
  IF test \in {"test_end_to_end_no_dist_strat", "test_end_to_end_graph_no_dist_strat"}
  THEN 0
  ELSE IF test \in {"test_end_to_end_1_gpu", "test_end_to_end_graph_1_gpu",
                    "test_end_to_end_2_gpu_fp16"}
  THEN 1
  ELSE 2

\* The N of `if context.num_gpus() < N: self.skipTest(...)` in the test, 0
\* for a test without the guard.
SkipGuard(test) ==
  IF test \in {"test_end_to_end_no_dist_strat", "test_end_to_end_graph_no_dist_strat"}
  THEN 0
  ELSE IF test \in {"test_end_to_end_1_gpu", "test_end_to_end_graph_1_gpu"}
  THEN 1
  ELSE 2

\* The tests that begin with tf.compat.v1.enable_eager_execution(config).
EnablesEager(test) ==
  test \in {"test_end_to_end_no_dist_strat", "test_end_to_end_1_gpu",
            "test_end_to_end_2_gpu", "test_end_to_end_xla_2_gpu",
            "test_end_to_end_2_gpu_fp16", "test_end_to_end_xla_2_gpu_fp16"}

\* extra_flags of the test, before _extra_flags is appended.
TestFlags(test) ==
  CASE test = "test_end_to_end_no_dist_strat" ->
         <<"-distribution_strategy", "off",
           "-model_dir", "keras_imagenet_no_dist_strat",
           "-data_format", "channels_last">>
    [] test = "test_end_to_end_graph_no_dist_strat" ->
         <<"-enable_eager", "false", "-distribution_strategy", "off",
           "-model_dir", "keras_imagenet_graph_no_dist_strat",
           "-data_format", "channels_last">>
    [] test = "test_end_to_end_1_gpu" ->
         <<"-num_gpus", "1", "-distribution_strategy", "default",
           "-model_dir", "keras_imagenet_1_gpu",
           "-data_format", "channels_last">>
    [] test = "test_end_to_end_graph_1_gpu" ->
         <<"-num_gpus", "1", "-enable_eager", "false",
           "-distribution_strategy", "default",
           "-model_dir", "keras_imagenet_graph_1_gpu",
           "-data_format", "channels_last">>
    [] test = "test_end_to_end_2_gpu" ->
         <<"-num_gpus", "2", "-distribution_strategy", "default",
           "-model_dir", "keras_imagenet_2_gpu">>
    [] test = "test_end_to_end_xla_2_gpu" ->
         <<"-num_gpus", "2", "-enable_xla", "true",
           "-distribution_strategy", "default",
           "-model_dir", "keras_imagenet_xla_2_gpu">>
    [] test = "test_end_to_end_2_gpu_fp16" ->
         <<"-num_gpus", "2", "-dtype", "fp16",
           "-distribution_strategy", "default",
           "-model_dir", "keras_imagenet_2_gpu_fp16">>
    [] test = "test_end_to_end_xla_2_gpu_fp16" ->
         <<"-num_gpus", "2", "-dtype", "fp16", "-enable_xla", "true",
           "-distribution_strategy", "default",
           "-model_dir", "keras_imagenet_xla_2_gpu_fp16">>
    [] test = "test_end_to_end_graph_2_gpu" ->
         <<"-num_gpus", "2", "-enable_eager", "false",
           "-distribution_strategy", "default",
           "-model_dir", "keras_imagenet_graph_2_gpu">>
    [] test = "test_end_to_end_graph_xla_2_gpu" ->
         <<"-num_gpus", "2", "-enable_eager", "false", "-enable_xla", "true",
           "-distribution_strategy", "default",
           "-model_dir", "keras_imagenet_graph_xla_2_gpu">>

\* extra_flags = extra_flags + self._extra_flags
TestExtraFlags(test) == TestFlags(test) \o extra_flags_common

\* _tempdir = None, and mkdtemp's directories, numbered as they are made.
NoDir == 0

\* get_temp_dir: the object's _tempdir, the directories and the mkdtemp
\* count after the call; the path returned is the new _tempdir.
\* Mutant get_temp_dir_uncached: every call makes a directory of its own.
get_temp_dir_uncached(tempdir, existing, count) ==
  [tempdir |-> count + 1, dirs |-> existing \cup {count + 1}, made |-> count + 1]

get_temp_dir(tempdir, existing, count) ==
  IF tempdir = NoDir
  THEN [tempdir |-> count + 1, dirs |-> existing \cup {count + 1}, made |-> count + 1]
  ELSE [tempdir |-> tempdir, dirs |-> existing, made |-> count]

InitKeras ==
  /\ prog = "keras_imagenet_test"
  /\ pc = "idle"
  /\ raised = NoError
  /\ calls = <<"setUpClass">>
  /\ FLAGS = <<>>
  /\ env \in [num_gpus : 0..MaxGpus]
  /\ self = NoSelf
  /\ locals = NoLocals
  /\ runs = 0
  /\ dirs = {} /\ made = 0 /\ synthetic_runs = <<>>
  /\ fs = <<>> /\ reports = <<>> /\ ip = 0
  /\ entry = "None" /\ strategy = NoStrategy /\ cluster_resolver = NoResolver
  /\ loop_args = NoLoopArgs /\ train_input = NoReturn /\ glob_calls = <<>>
  /\ datasets = <<>> /\ at_return = [globs |-> 0, datasets |-> 0]

\* self after a call of self.get_temp_dir() with outcome t.  Besides
\* _tempdir the object's record keeps the history of the call: the
\* directories mkdtemp made for this object and the paths returned to it.
CallGetTempDir(obj, existing, t) ==
  [obj EXCEPT !.tempdir = t.tempdir,
              !.mkdtemp_paths = @ \cup (t.dirs \ existing),
              !.returned_paths = @ \cup {t.tempdir}]

\* A fresh KerasImagenetTest object for one test method, and its setUp
\* (the test runner makes one object per test method).
KerasSetUp ==
  /\ prog = "keras_imagenet_test" /\ pc = "idle"
  /\ runs < MaxTests
  /\ \E test \in KerasTests :
       self' = [cls |-> "KerasImagenetTest", method |-> test, run |-> runs + 1,
                tempdir |-> NoDir, mkdtemp_paths |-> {},
                returned_paths |-> {}]
  /\ locals' = [frame |-> "setUp", num_images_validation |-> 4]
  /\ runs' = runs + 1
  /\ raised' = NoError
  /\ calls' = <<"setUp">>
  /\ pc' = "test"
  /\ UNCHANGED <<prog, FLAGS, env, kiVars, notKi>>

\* A test whose guard finds too few GPUs: self.skipTest(...).
KerasTestSkips ==
  /\ prog = "keras_imagenet_test" /\ pc = "test"
  /\ SkipGuard(self.method) # 0
  /\ env.num_gpus < SkipGuard(self.method)
  /\ raised' = [type |-> "SkipTest",
                msg |-> "{} GPUs are not available for this test. {} GPUs are available",
                arg |-> ToString(SkipGuard(self.method))]
  /\ calls' = calls \o (IF EnablesEager(self.method)
                        THEN <<"enable_eager_execution">> ELSE <<>>)
                    \o <<"skipTest">>
  /\ pc' = "tearDown"
  /\ UNCHANGED <<prog, FLAGS, env, self, locals, runs, kiVars, notKi>>

\* A test past its guard: integration.run_synthetic(main, tmp_root =
\* self.get_temp_dir(), extra_flags), which passes or fails, and which
\* leaves the tmp_root it was handed in place or removes it.
KerasTestRuns ==
  /\ prog = "keras_imagenet_test" /\ pc = "test"
  /\ ~(SkipGuard(self.method) # 0 /\ env.num_gpus < SkipGuard(self.method))
  /\ LET t == get_temp_dir(self.tempdir, dirs, made)
     IN /\ self' = CallGetTempDir(self, dirs, t)
        /\ \/ dirs' = t.dirs
           \/ dirs' = t.dirs \ {t.tempdir}
        /\ made' = t.made
        /\ synthetic_runs' = Append(synthetic_runs,
                                    [test |-> self.method, run |-> self.run,
                                     tmp_root |-> t.tempdir,
                                     extra_flags |-> TestExtraFlags(self.method),
                                     num_gpus_available |-> env.num_gpus])
  /\ \/ raised' = raised
     \/ raised' = [type |-> "Error", msg |-> "integration.run_synthetic", arg |-> ""]
  /\ calls' = calls \o (IF EnablesEager(self.method)
                        THEN <<"enable_eager_execution">> ELSE <<>>)
                    \o <<"get_temp_dir", "integration.run_synthetic">>
  /\ pc' = "tearDown"
  /\ UNCHANGED <<prog, FLAGS, env, locals, runs, notKi>>

\* tearDown: tf.io.gfile.rmtree(self.get_temp_dir())
KerasTearDown ==
  /\ prog = "keras_imagenet_test" /\ pc = "tearDown"
  /\ LET t == get_temp_dir(self.tempdir, dirs, made)
     IN /\ self' = CallGetTempDir(self, dirs, t)
        /\ dirs' = t.dirs \ {t.tempdir}
        /\ made' = t.made
  /\ calls' = calls \o <<"tearDown", "get_temp_dir", "rmtree">>
  /\ pc' = "idle"
  /\ UNCHANGED <<prog, raised, FLAGS, env, locals, runs, synthetic_runs, notKi>>

NextKeras == KerasSetUp \/ KerasTestSkips \/ KerasTestRuns \/ KerasTearDown

(***************************************************************************)
(* official/transformer/v2/transformer_layers_test.py, test_attention_layer *)
(* A tensor is known by its shape <<batch, length, hidden_size>>.           *)
(***************************************************************************)

\* Mutant of ConcatAxis1: the new keys replace the cached ones.
ConcatAxis1_replace(a, b) == b

\* tf.concat([a, b], axis=1) of two rank-3 tensors that agree on the other
\* axes.
ConcatAxis1(a, b) == <<a[1], a[2] + b[2], a[3]>>

\* attention_layer.SelfAttention(hidden_size, num_heads, dropout)
SelfAttention(hidden_size, num_heads, attention_dropout) ==
  [hidden_size |-> hidden_size, num_heads |-> num_heads,
   attention_dropout |-> attention_dropout]

\* layer(x, bias, training, cache): the output, shaped like the input, and
\* the cache with the keys and values of x joined to the cached ones along
\* the length axis.
SelfAttentionCall(layer, x, cache) ==
  LET k == <<x[1], x[2], layer.hidden_size>>
      v == <<x[1], x[2], layer.hidden_size>>
  IN [y |-> <<x[1], x[2], layer.hidden_size>>,
      cache |-> [k |-> ConcatAxis1(cache.k, k), v |-> ConcatAxis1(cache.v, v)]]

\* The cache the test starts from: tf.zeros([batch, 0, hidden_size]).
EmptyCache(batch, hidden_size) ==
  [k |-> <<batch, 0, hidden_size>>, v |-> <<batch, 0, hidden_size>>]

HiddenSizes == {8, 64}

\* test_attention_layer up to the call of the layer; the test has batch 1,
\* length 2 and hidden_size 64.
InitAttention ==
  /\ prog = "transformer_layers_test"
  /\ pc = "call"
  /\ raised = NoError
  /\ calls = <<"SelfAttention", "get_config">>
  /\ FLAGS = <<>>
  /\ env = <<>>
  /\ self = [cls |-> "TransformerLayersTest", method |-> "test_attention_layer"]
  /\ \E batch \in 1..MaxBatchDim, length \in 1..MaxLength, hidden_size \in HiddenSizes :
       locals = [frame |-> "test_attention_layer",
                 hidden_size |-> hidden_size,
                 layer |-> SelfAttention(hidden_size, 4, "0.5"),
                 length |-> length,
                 x |-> <<batch, length, hidden_size>>,
                 cache |-> EmptyCache(batch, hidden_size),
                 cache_before |-> EmptyCache(batch, hidden_size),
                 y |-> <<>>]
  /\ runs = 0
  /\ dirs = {} /\ made = 0 /\ synthetic_runs = <<>>
  /\ fs = <<>> /\ reports = <<>> /\ ip = 0
  /\ entry = "None" /\ strategy = NoStrategy /\ cluster_resolver = NoResolver
  /\ loop_args = NoLoopArgs /\ train_input = NoReturn /\ glob_calls = <<>>
  /\ datasets = <<>> /\ at_return = [globs |-> 0, datasets |-> 0]

\* y = layer(x, bias, training=True, cache=cache); the cache dict is
\* updated in place.
AttentionLayerCall ==
  /\ prog = "transformer_layers_test" /\ pc = "call"
  /\ LET r == SelfAttentionCall(locals.layer, locals.x, locals.cache)
     IN locals' = [locals EXCEPT !.y = r.y, !.cache = r.cache,
                                 !.cache_before = locals.cache]
  /\ runs' = runs + 1
  /\ calls' = Append(calls, "layer")
  /\ pc' = IF runs = 0 THEN "assert" ELSE "decode"
  /\ UNCHANGED <<prog, raised, FLAGS, env, self, kiVars, notKi>>

\* The assertEqual calls on y.shape, cache["k"].shape and cache["v"].shape.
AttentionAsserts ==
  /\ prog = "transformer_layers_test" /\ pc = "assert"
  /\ LET expected == <<locals.x[1], locals.length, locals.hidden_size>>
     IN raised' = IF /\ locals.y = expected
                     /\ locals.cache.k = expected
                     /\ locals.cache.v = expected
                  THEN raised
                  ELSE [type |-> "AssertionError", msg |-> "assertEqual", arg |-> ""]
  /\ calls' = calls \o <<"assertEqual", "assertEqual", "assertEqual">>
  /\ pc' = "decode"
  /\ UNCHANGED <<prog, FLAGS, env, self, locals, runs, kiVars, notKi>>

\* A further decoding step: the layer is called again on the same cache
\* with a new input of any length.
AttentionNextInput ==
  /\ prog = "transformer_layers_test" /\ pc = "decode"
  /\ runs < MaxDecodeSteps
  /\ \E length \in 1..MaxLength :
       locals' = [locals EXCEPT !.length = length,
                                !.x = <<locals.x[1], length, locals.hidden_size>>]
  /\ pc' = "call"
  /\ UNCHANGED <<prog, raised, calls, FLAGS, env, self, runs, kiVars, notKi>>

NextAttention == AttentionLayerCall \/ AttentionAsserts \/ AttentionNextInput

\* One behaviour is one run of one of the scripts.
Init == InitPretrain \/ InitSquad \/ InitKeras \/ InitAttention

Next == NextPretrain \/ NextSquad \/ NextKeras \/ NextAttention

Spec == Init /\ [][Next]_vars

(***************************************************************************)
(* Properties                                                              *)
(***************************************************************************)

\* Position of the first call of that name in calls, 0 when there is none.
FirstCall(name) ==
  IF \E i \in 1..Len(calls) : calls[i] = name
  THEN CHOOSE i \in 1..Len(calls) :
         /\ calls[i] = name
         /\ \A j \in 1..(i - 1) : calls[j] # name
  ELSE 0

Called(name) == FirstCall(name) > 0

ThroughMain == prog = "run_pretraining" /\ entry = "main"

UnsupportedError(strategy_type) ==
  [type |-> "ValueError",
   msg |-> "The distribution strategy type is not supported: ",
   arg |-> strategy_type]

\* C1: in main, strategy_type 'mirror' trains with a MirroredStrategy,
\* 'tpu' trains with a TPUStrategy built from the cluster resolver that
\* tpu_initialize(FLAGS.tpu) returned, TPU initialisation coming before the
\* strategy is built, and any other value raises ValueError('The
\* distribution strategy type is not supported: ...') with
\* run_bert_pretrain never called.  Once main is past its dispatch (which
\* follows the TF 2.x assertion) it has called run_bert_pretrain with that
\* strategy or has raised that error, according to the flag.
C1_StrategyDispatch ==
  ThroughMain =>
    /\ FLAGS.strategy_type = "mirror" =>
         /\ ~Called("tpu_lib.tpu_initialize")
         /\ ~Called("tf.distribute.experimental.TPUStrategy")
         /\ raised # UnsupportedError(FLAGS.strategy_type)
         /\ pc \notin {"main", "main_strategy", "raised"} =>
              strategy.type = "MirroredStrategy"
         /\ Called("run_bert_pretrain") =>
              /\ Called("tf.distribute.MirroredStrategy")
              /\ strategy.type = "MirroredStrategy"
         /\ Called("run_customized_training_loop") =>
              loop_args.strategy = strategy
    /\ FLAGS.strategy_type = "tpu" =>
         /\ ~Called("tf.distribute.MirroredStrategy")
         /\ raised # UnsupportedError(FLAGS.strategy_type)
         /\ pc \notin {"main", "main_strategy", "main_tpu_strategy", "raised"} =>
              strategy.type = "TPUStrategy"
         /\ Called("tf.distribute.experimental.TPUStrategy") =>
              /\ Called("tpu_lib.tpu_initialize")
              /\ FirstCall("tpu_lib.tpu_initialize")
                   < FirstCall("tf.distribute.experimental.TPUStrategy")
              /\ strategy.type = "TPUStrategy"
              /\ strategy.resolver = cluster_resolver
              /\ cluster_resolver.kind = "TPUClusterResolver"
              /\ cluster_resolver.tpu = FLAGS.tpu
         /\ Called("run_bert_pretrain") =>
              Called("tf.distribute.experimental.TPUStrategy")
         /\ Called("run_customized_training_loop") =>
              loop_args.strategy = strategy
    /\ FLAGS.strategy_type \notin {"mirror", "tpu"} =>
         /\ ~Called("run_bert_pretrain")
         /\ ~Called("tf.distribute.MirroredStrategy")
         /\ ~Called("tpu_lib.tpu_initialize")
         /\ strategy = NoStrategy
         /\ pc \in {"main", "main_strategy", "raised"}
         /\ (pc = "raised" /\ raised.type # "AssertionError") =>
              raised = UnsupportedError(FLAGS.strategy_type)

\* C1 witness: main, with strategy_type 'tpu' and a TPU address, hands the
\* training loop a TPUStrategy.
C1_Witness ==
  /\ ThroughMain
  /\ pc = "training_loop"
  /\ FLAGS.strategy_type = "tpu"
  /\ FLAGS.tpu = "grpc://tpu"
  /\ loop_args.strategy.type = "TPUStrategy"
  /\ loop_args.strategy.resolver.tpu = "grpc://tpu"

\* get_pretrain_input_data has been called and has returned or raised.
InputDataCalled ==
  prog = "run_pretraining" /\ Called("get_pretrain_input_data")

BatchSizeError(n) ==
  [type |-> "ValueError",
   msg |-> "Batch size must be divisible by number of replicas : ",
   arg |-> ToString(n)]

\* C2 as stated: for every strategy, TPU or mirrored, with replica count n
\* and batch size b with b mod n # 0, get_pretrain_input_data raises the
\* ValueError and creates no dataset.
C2_AsStated ==
  InputDataCalled =>
    LET a == loop_args.train_input_fn
        n == a.strategy.num_replicas_in_sync
    IN a.batch_size % n # 0 =>
         /\ raised = BatchSizeError(n)
         /\ datasets = <<>>

\* C2 as amended: for a TPUStrategy with replica count n and batch size b
\* with b mod n # 0, get_pretrain_input_data raises ValueError('Batch size
\* must be divisible by number of replicas') and creates no dataset; for a
\* strategy that is not a TPUStrategy it makes no divisibility check: no
\* such error is raised and the dataset is created with batch size b,
\* whether or not n divides b.
C2_TpuOnlyDivisibility ==
  InputDataCalled =>
    LET a == loop_args.train_input_fn
        n == a.strategy.num_replicas_in_sync
    IN /\ (a.strategy.type = "TPUStrategy" /\ a.batch_size % n # 0) =>
            /\ raised = BatchSizeError(n)
            /\ pc = "raised"
            /\ train_input = NoReturn
            /\ datasets = <<>>
            /\ glob_calls = <<>>
       /\ (a.strategy.type = "TPUStrategy" /\ a.batch_size % n = 0) =>
            raised = NoError
       /\ a.strategy.type # "TPUStrategy" =>
            /\ raised = NoError
            /\ Len(datasets) = 1
            /\ datasets[1].batch_size = a.batch_size

\* C2 witness: a TPUStrategy with 3 replicas and batch size 4 has raised.
C2_Witness ==
  /\ InputDataCalled
  /\ loop_args.train_input_fn.strategy.type = "TPUStrategy"
  /\ loop_args.train_input_fn.strategy.num_replicas_in_sync = 3
  /\ loop_args.train_input_fn.batch_size = 4
  /\ pc = "raised"

\* C3: in main, when the model_dir flag is not specified (None or empty)
\* the training loop receives model_dir '/tmp/bert20/'; when it is
\* specified the training loop receives exactly the specified value.
C3_ModelDirDefault ==
  (ThroughMain /\ Called("run_customized_training_loop")) =>
    /\ env.argv_model_dir \in {None, ""} => loop_args.model_dir = "/tmp/bert20/"
    /\ env.argv_model_dir \notin {None, ""} =>
         loop_args.model_dir = env.argv_model_dir

\* C3 witness: the flag was given as the empty string and the training loop
\* was handed the default directory.
C3_Witness ==
  /\ ThroughMain
  /\ Called("run_customized_training_loop")
  /\ env.argv_model_dir = ""
  /\ loop_args.model_dir = "/tmp/bert20/"

NotSpecifiedError ==
  [type |-> "ValueError", msg |-> "Distribution strategy is not specified.",
   arg |-> ""]

\* C11: once run_bert_pretrain has run with no distribution strategy (None)
\* it has raised ValueError('Distribution strategy is not specified.') and
\* neither run_customized_training nor the customized training loop was
\* ever invoked (no loop arguments were built, get_pretrain_input_data was
\* not called); and when the program was started through main, every state
\* in which run_bert_pretrain has been called has a strategy set, and that
\* error is never the one raised.
C11_StrategyNotSpecified ==
  prog = "run_pretraining" =>
    /\ (/\ Called("run_bert_pretrain")
        /\ pc # "run_bert_pretrain"
        /\ strategy = NoStrategy) =>
          /\ pc = "raised"
          /\ raised = NotSpecifiedError
          /\ ~Called("run_customized_training")
          /\ ~Called("run_customized_training_loop")
          /\ ~Called("get_pretrain_input_data")
          /\ loop_args = NoLoopArgs
          /\ datasets = <<>>
    /\ entry = "main" =>
          /\ raised # NotSpecifiedError
          /\ Called("run_bert_pretrain") =>
                /\ strategy # NoStrategy
                /\ strategy.type \in {"MirroredStrategy", "TPUStrategy"}

\* C11 witness: run_bert_pretrain, entered directly with strategy None, has
\* raised the error after reading the BERT configuration.
C11_Witness ==
  /\ prog = "run_pretraining" /\ entry = "run_bert_pretrain"
  /\ strategy = NoStrategy
  /\ calls = <<"run_bert_pretrain", "BertConfig.from_json_file">>
  /\ pc = "raised"
  /\ raised = NotSpecifiedError

\* C9: with a TPUStrategy of n replicas and a global batch size b divisible
\* by n, the pretraining dataset is built with the per-replica batch size
\* b / n, so that per-replica batch size times n is b exactly; with any other
\* strategy the dataset is built with the unchanged global batch size b.
C9_PerReplicaBatchSize ==
  (InputDataCalled /\ raised = NoError) =>
    LET a == loop_args.train_input_fn
        n == a.strategy.num_replicas_in_sync
        b == a.batch_size
    IN IF a.strategy.type = "TPUStrategy"
       THEN /\ b % n = 0
            /\ train_input.kind = "function"
            /\ train_input.value.batch_size * n = b
            /\ \A i \in 1..Len(datasets) : datasets[i].batch_size * n = b
       ELSE /\ Len(datasets) = 1
            /\ datasets[1].batch_size = b

\* C9 witness: a TPUStrategy with 2 replicas and global batch size 4 built
\* a dataset with batch size 2.
C9_Witness ==
  /\ InputDataCalled
  /\ loop_args.train_input_fn.strategy.type = "TPUStrategy"
  /\ loop_args.train_input_fn.strategy.num_replicas_in_sync = 2
  /\ loop_args.train_input_fn.batch_size = 4
  /\ Len(datasets) >= 1
  /\ datasets[1].batch_size = 2

RECURSIVE JoinComma(_)
\* ','.join(pieces)
JoinComma(pieces) ==
  IF Len(pieces) = 0 THEN <<>>
  ELSE IF Len(pieces) = 1 THEN pieces[1]
  ELSE pieces[1] \o <<",">> \o JoinComma(Tail(pieces))

RECURSIVE GlobAll(_)
\* The files the patterns match, pattern after pattern.
GlobAll(patterns) ==
  IF Len(patterns) = 0 THEN <<>>
  ELSE Glob(patterns[1]) \o GlobAll(Tail(patterns))

\* C10: get_pretrain_input_data returns a function that produces the
\* dataset, and during the call itself creates no dataset and globs no
\* input file, exactly when the strategy is a TPUStrategy; for every other
\* strategy it globs the comma-separated input patterns in order, creates
\* the dataset exactly once during the call and returns that dataset.  (A
\* call that raises returns nothing.)
C10_FunctionOrDataset ==
  InputDataCalled =>
    LET a == loop_args.train_input_fn
    IN /\ raised = NoError =>
            (train_input.kind = "function" <=> a.strategy.type = "TPUStrategy")
       /\ a.strategy.type = "TPUStrategy" =>
            /\ at_return = [globs |-> 0, datasets |-> 0]
            /\ train_input.kind \in {"function", "None"}
            /\ train_input.kind = "None" <=> raised # NoError
       /\ a.strategy.type # "TPUStrategy" =>
            /\ train_input.kind = "dataset"
            /\ at_return = [globs |-> Len(glob_calls), datasets |-> 1]
            /\ Len(datasets) = 1
            /\ train_input.value = datasets[1]
            /\ Len(glob_calls) >= 1
            /\ \A i \in 1..Len(glob_calls) :
                 \A j \in 1..Len(glob_calls[i]) : glob_calls[i][j] # ","
            /\ JoinComma(glob_calls) = a.input_file_pattern
            /\ datasets[1].input_files = GlobAll(glob_calls)

\* C10 witness: under a mirrored strategy the pattern "a,b" was globbed
\* as "a" and then "b" and the dataset itself was returned.
C10_Witness ==
  /\ InputDataCalled
  /\ loop_args.train_input_fn.strategy.type = "MirroredStrategy"
  /\ loop_args.train_input_fn.input_file_pattern = <<"a", ",", "b">>
  /\ glob_calls = << <<"a">>, <<"b">> >>
  /\ train_input.kind = "dataset"
  /\ train_input.value.input_files = << << <<"a">>, 1 >>, << <<"b">>, 1 >> >>

InSquad == prog = "bert_squad_benchmark"

\* The report of the benchmark method that is running, if it has reported.
OwnReports == {i \in 1..Len(reports) : reports[i].run = self.run}

\* C4: BertSquadAccuracy reports, as summary['eval_metrics'], the F1 score
\* that squad_evaluate_v1_1.evaluate returned, with min_accuracy 0.900 and
\* max_accuracy 0.908, so that the reported score is within the reported
\* bounds exactly when F1 is within [0.900, 0.908]; the performance
\* benchmarks of BertSquadBenchmarkReal report with the bounds 0 and 1.
C4_AccuracyBounds ==
  InSquad =>
    /\ \A i \in 1..Len(reports) :
         IF reports[i].cls = "BertSquadAccuracy"
         THEN /\ reports[i].min_accuracy = 900
              /\ reports[i].max_accuracy = 908
              /\ "eval_metrics" \in DOMAIN reports[i].stats
              /\ reports[i].stats.eval_metrics \in Scores
         ELSE /\ reports[i].min_accuracy = 0
              /\ reports[i].max_accuracy = 1000
    /\ \A i \in OwnReports :
         reports[i].cls = "BertSquadAccuracy" =>
           /\ reports[i].stats.eval_metrics = locals.eval_metrics.f1
           /\ (/\ reports[i].min_accuracy <= reports[i].stats.eval_metrics
               /\ reports[i].stats.eval_metrics <= reports[i].max_accuracy)
              <=> locals.eval_metrics.f1 \in 900..908

\* C4 witness: the accuracy benchmark has reported an F1 score of 0.908
\* where the exact-match score was 0.900.
C4_Witness ==
  /\ InSquad
  /\ \E i \in OwnReports :
       /\ reports[i].cls = "BertSquadAccuracy"
       /\ locals.eval_metrics = [exact_match |-> 900, f1 |-> 908]
       /\ reports[i].stats.eval_metrics = 908

\* The number in the name benchmark_N_gpu.
GpusInName ==
  ("benchmark_1_gpu" :> 1) @@ ("benchmark_2_gpu" :> 2)
  @@ ("benchmark_4_gpu" :> 4) @@ ("benchmark_8_gpu" :> 8)

\* C5: in every benchmark method benchmark_N_gpu of both classes,
\* self.num_gpus is N when the mirrored strategy is built: the strategy, and
\* the training that writes the summary, use N GPUs.
C5_GpuCountMatchesName ==
  InSquad =>
    /\ locals.frame # "None" =>
         /\ self.num_gpus = GpusInName[self.method]
         /\ locals.strategy.distribution_strategy # "None" =>
              /\ locals.strategy.distribution_strategy = "mirrored"
              /\ locals.strategy.num_gpus = GpusInName[self.method]
    /\ \A p \in DOMAIN fs :
         fs[p].kind = "training_summary" =>
           fs[p].num_gpus = GpusInName[fs[p].written_by[2]]

\* C5 witness: benchmark_4_gpu has built its strategy with 4 GPUs.
C5_Witness ==
  /\ InSquad
  /\ self.method = "benchmark_4_gpu"
  /\ locals.strategy = [distribution_strategy |-> "mirrored", num_gpus |-> 4]

Positions(name) == {i \in 1..Len(calls) : calls[i] = name}

\* Every call of `later` in calls has a call of `earlier` before it.
Precedes(earlier, later) ==
  \A i \in Positions(later) : \E j \in Positions(earlier) : j < i

\* C6: in every benchmark method the input metadata is read before the
\* training call and again before the prediction call,
\* training_summary.txt is read only after train_squad has returned,
\* predictions.json only after predict_squad has returned,
\* self.eval_metrics is set before it is copied into the summary, and
\* _report_benchmark is the last step and happens exactly once for a
\* method that runs to its end.
C6_ReadCallReadReport ==
  InSquad =>
    /\ \A i \in Positions("run_squad.train_squad")
             \cup Positions("run_squad.predict_squad") :
         /\ i > 2
         /\ calls[i - 2] = "_read_input_meta_data_from_file"
    /\ Precedes("run_squad.train_squad", "_read_training_summary_from_file")
    /\ Positions("_read_training_summary_from_file") # {} =>
         raised.msg # "run_squad.train_squad"
    /\ Precedes("run_squad.predict_squad", "_read_predictions_from_file")
    /\ Positions("_read_predictions_from_file") # {} =>
         raised.msg # "run_squad.predict_squad"
    /\ Precedes("self.eval_metrics", "summary['eval_metrics']")
    /\ Precedes("_read_training_summary_from_file", "_report_benchmark")
    /\ Cardinality(Positions("_report_benchmark")) <= 1
    /\ Positions("_report_benchmark") \subseteq {Len(calls)}
    /\ Positions("_report_benchmark") # {} <=> (pc = "idle" /\ runs > 0)
    /\ Len(reports) = IF pc = "idle" THEN runs ELSE runs - 1

\* C6 witness: the accuracy benchmark ran to its end and reported.
C6_Witness ==
  /\ InSquad
  /\ pc = "idle"
  /\ self.cls = "BertSquadAccuracy"
  /\ Len(calls) = 14
  /\ calls[Len(calls)] = "_report_benchmark"
  /\ Positions("run_squad.predict_squad") = {7}

InKeras == prog = "keras_imagenet_test"

\* The value that follows the first occurrence of the flag `name`, "" when
\* the flag is not passed.
FlagValue(flags, name) ==
  IF \E i \in 1..(Len(flags) - 1) : flags[i] = name
  THEN flags[(CHOOSE i \in 1..(Len(flags) - 1) :
                /\ flags[i] = name
                /\ \A j \in 1..(i - 1) : flags[j] # name) + 1]
  ELSE ""

DecimalDigit ==
  ("0" :> 0) @@ ("1" :> 1) @@ ("2" :> 2) @@ ("3" :> 3) @@ ("4" :> 4)
  @@ ("5" :> 5) @@ ("6" :> 6) @@ ("7" :> 7) @@ ("8" :> 8) @@ ("9" :> 9)

PassesNumGpus(flags) == FlagValue(flags, "-num_gpus") # ""

NumGpusPassed(flags) == DecimalDigit[FlagValue(flags, "-num_gpus")]

\* C7: every end-to-end test that passes '-num_gpus N' calls
\* integration.run_synthetic only if at least N GPUs are available and is
\* skipped otherwise, N being the number it passes as -num_gpus; the two
\* tests with '-distribution_strategy off' call it for every number of
\* available GPUs, zero included.
C7_SkipGuardMatchesNumGpus ==
  InKeras =>
    /\ \A i \in 1..Len(synthetic_runs) :
         LET r == synthetic_runs[i]
         IN /\ r.extra_flags = TestExtraFlags(r.test)
            /\ PassesNumGpus(r.extra_flags) =>
                 r.num_gpus_available >= NumGpusPassed(r.extra_flags)
    /\ pc = "tearDown" =>
         LET f == TestExtraFlags(self.method)
             ran == \E i \in 1..Len(synthetic_runs) :
                      synthetic_runs[i].run = self.run
             skipped == raised.type = "SkipTest"
         IN /\ ran <=> ~skipped
            /\ PassesNumGpus(f) => (ran <=> env.num_gpus >= NumGpusPassed(f))
            /\ PassesNumGpus(f) => NumGpusPassed(f) \in {1, 2}
            /\ ~PassesNumGpus(f) =>
                 /\ FlagValue(f, "-distribution_strategy") = "off"
                 /\ ran
            /\ FlagValue(f, "-distribution_strategy") = "off" => ran
    /\ Cardinality({t \in KerasTests :
                      FlagValue(TestExtraFlags(t), "-distribution_strategy") = "off"}) = 2

\* C7 witness: test_end_to_end_2_gpu_fp16, which passes -num_gpus 2, was
\* skipped with one GPU available.
C7_Witness ==
  /\ InKeras
  /\ pc = "tearDown"
  /\ self.method = "test_end_to_end_2_gpu_fp16"
  /\ env.num_gpus = 1
  /\ raised.type = "SkipTest"
  /\ \A i \in 1..Len(synthetic_runs) : synthetic_runs[i].run # self.run

InAttention == prog = "transformer_layers_test"

\* C8: a call of the SelfAttention layer on an input of shape
\* [batch, length, hidden_size] with a decoding cache returns an output of
\* the shape of the input and leaves cache['k'] and cache['v'] with shape
\* [batch, previous_length + length, hidden_size]; from the empty cache of
\* the test the cache has the length of the input after the first call, and
\* the test's assertions pass.
C8_AttentionCacheShape ==
  (InAttention /\ pc \in {"assert", "decode"}) =>
    LET x == locals.x
        grown == <<x[1], locals.cache_before.k[2] + x[2], x[3]>>
    IN /\ locals.y = x
       /\ locals.cache.k = grown
       /\ locals.cache.v = grown
       /\ locals.cache_before.k[2] = locals.cache_before.v[2]
       /\ runs = 1 =>
            /\ locals.cache_before.k[2] = 0
            /\ locals.cache.k = x
            /\ locals.cache.v = x
       /\ raised = NoError

\* C8 witness: a second call with an input of length 1 on a cache of
\* length 2 left the cache with shape [1, 3, 64].
C8_Witness ==
  /\ InAttention
  /\ pc = "decode"
  /\ runs = 2
  /\ locals.cache_before.k = <<1, 2, 64>>
  /\ locals.x = <<1, 1, 64>>
  /\ locals.y = <<1, 1, 64>>
  /\ locals.cache.k = <<1, 3, 64>>
  /\ locals.cache.v = <<1, 3, 64>>

\* C12: for every KerasImagenetTest object, whatever get_temp_dir calls
\* its test made before tearDown: mkdtemp made at most one directory for
\* the object, every get_temp_dir call returned the same path, which is
\* the object's _tempdir and the directory made for it, and once tearDown
\* has completed no directory made for the object remains (no temporary
\* directory remains at all between tests), also for a test that was
\* skipped before it called get_temp_dir.
C12_OneTempDirRemoved ==
  (InKeras /\ self.cls = "KerasImagenetTest") =>
    /\ Cardinality(self.mkdtemp_paths) <= 1
    /\ Cardinality(self.returned_paths) <= 1
    /\ self.returned_paths \subseteq {self.tempdir}
    /\ self.returned_paths = self.mkdtemp_paths
    /\ made <= runs
    /\ dirs \subseteq self.mkdtemp_paths
    /\ pc = "idle" =>
         /\ Called("tearDown")
         /\ Cardinality(self.mkdtemp_paths) = 1
         /\ self.mkdtemp_paths \cap dirs = {}
         /\ dirs = {}

\* C12 witness: the first test ran and called get_temp_dir itself, its
\* directory was removed; the second test was skipped before it called
\* get_temp_dir, tearDown made its directory and removed it.
C12_Witness ==
  /\ InKeras /\ pc = "idle" /\ runs = 2
  /\ Len(synthetic_runs) = 1
  /\ synthetic_runs[1].run = 1 /\ synthetic_runs[1].tmp_root = 1
  /\ raised.type = "SkipTest"
  /\ calls = <<"setUp", "skipTest", "tearDown", "get_temp_dir", "rmtree">>
  /\ self.mkdtemp_paths = {2} /\ self.returned_paths = {2}
  /\ made = 2 /\ dirs = {}

\* The directory a path lies in.
DirName(path) == SubSeq(path, 1, Len(path) - 1)

\* The training_summary.txt and predictions.json files that lie in the
\* model directory the running benchmark method named.
FilesInModelDir ==
  {p \in DOMAIN fs : /\ fs[p].kind \in {"training_summary", "predictions"}
                     /\ DirName(p) = FLAGS.model_dir}

\* C13: every benchmark method (of BertSquadBenchmarkReal and of
\* BertSquadAccuracy) names a model directory that no other benchmark
\* method names: the model directory of the method that is running never
\* holds a training_summary.txt or a predictions.json that a different
\* benchmark method wrote, and the training summary it read is its own.
C13_DistinctModelDirs ==
  (InSquad /\ self.cls \in {"BertSquadBenchmarkReal", "BertSquadAccuracy"}) =>
    /\ \A p \in FilesInModelDir :
         <<fs[p].written_by[1], fs[p].written_by[2]>> = <<self.cls, self.method>>
    /\ locals.summary # <<>> =>
         <<locals.summary.written_by[1], locals.summary.written_by[2]>>
           = <<self.cls, self.method>>

====
